---- MODULE Spec2Model ----
(***************************************************************************)
(* Model of src/common/waifu2x.cpp: the tiling / padding / batching loop   *)
(* of Waifu2x::ReconstructImage, the padding geometry of PaddingImage, and *)
(* the pass orchestration, life cycle and cancellation polling of          *)
(* Waifu2x::init / destroy / waifu2x.                                      *)
(*                                                                         *)
(* Two specifications share the module:                                    *)
(*   SpecPass  pixel-level: PaddingImage, one ReconstructImage pass batch  *)
(*             by batch with a stand-in engine, crop back.                 *)
(*   Spec      call-level: init / destroy / waifu2x with its passes, its   *)
(*             two cancellation polls and the output write.                *)
(***************************************************************************)
EXTENDS Integers, Sequences, FiniteSets, TLC

VARIABLES
    \* ---- configuration fields of the instance (set by init) ----
    crop_size, batch_size,
    \* ---- pixel-level pass state (SpecPass) ----
    float_plane,    \* the luminance plane as loaded, before padding (history)
    pass_in,        \* the canvas as it was when ReconstructImage was entered (history)
    im,             \* cv::Mat im of waifu2x() / ReconstructImage
    outim,          \* cv::Mat outim of ReconstructImage
    input_block,    \* host buffer of batch_size serialized tiles
    output_block,   \* host buffer of batch_size result tiles
    net_batch,      \* batch size the input layer of the net was last told
    num,            \* loop variable of the batch loop
    rpc,            \* position inside the pass
    rret,           \* value returned by ReconstructImage
    written,        \* per canvas address, how many memcpy's of this pass wrote it (history)
    calls,          \* one record per engine call of this pass (history)
    windows,        \* context windows computed for the tiles of the last batch (history)
    engine,         \* which stand-in the net of the pass is
    \* ---- instance state and one waifu2x() call (Spec) ----
    is_inited, mode, scale_ratio,   \* scale_ratio in units of 1/RatioUnit
    net_noise, net_scale,           \* "null" or "loaded"
    block_len,                      \* floats allocated for input_block (0: nullptr)
    init_ret,                       \* value returned by the last init call
    init_pre,                       \* is_inited and configuration just before that call (history)
    init_succeeded,                 \* an init call returned OK since construction / destroy (history)
    pc,                             \* position inside waifu2x()
    file,                           \* the input file of the call
    has_probe, cancel,              \* cancel_func given; what it returns now
    cancel_at,                      \* where the call stood when the probe turned true (history)
    image_size, im_size,            \* cv::Size image_size; size of cv::Mat im
    scale2, shrinkRatio,            \* the constants of lines 809-810 (shrinkRatio as n / d)
    iter,                           \* i of the upscale loop
    ret,                            \* value returned by waifu2x()
    trace,                          \* steps of the call so far (history)
    output,                         \* what the call wrote
    call_inited                     \* init_succeeded when the call was made (history)

callvars == <<is_inited, mode, scale_ratio, net_noise, net_scale, block_len, init_ret,
              init_pre, init_succeeded, pc, file, has_probe, cancel, cancel_at,
              image_size, im_size, scale2, shrinkRatio, iter, ret, trace, output,
              call_inited>>

passvars == <<float_plane, pass_in, im, outim, input_block, output_block,
              net_batch, num, rpc, rret, written, calls, windows, engine>>

vars == <<crop_size, batch_size, passvars, callvars>>

-----------------------------------------------------------------------------
(* Bounds of the model *)

MaxCrop == 3
MaxBatch == 3
MaxDim == 4
MaxImage == 2
MaxRatio == 12

(* Program constants *)

offset == 0
layer_num == 7

Uninit == 0 - 1

-----------------------------------------------------------------------------
(* Sizes derived in init() *)

inner_padding == layer_num
outer_padding == 1
output_size == crop_size - offset * 2
input_block_size == crop_size + (inner_padding + outer_padding) * 2
output_block_size == crop_size + (inner_padding + outer_padding - layer_num) * 2
input_block_plane_size == input_block_size * input_block_size
output_block_plane_size == output_block_size * output_block_size
output_padding == inner_padding + outer_padding - layer_num

-----------------------------------------------------------------------------
(* cv::Mat of one float channel: rows, cols and row-major data *)

Mat(rows, cols, f(_, _)) ==
    [rows |-> rows, cols |-> cols,
     data |-> [i \in 0..(rows * cols - 1) |-> f(i \div cols, i % cols)]]

At(m, r, c) == m.data[r * m.cols + c]

EmptyMat == [rows |-> 0, cols |-> 0, data |-> [i \in {} |-> 0]]

Clamp(v, lo, hi) == IF v < lo THEN lo ELSE IF v > hi THEN hi ELSE v

\* cv::copyMakeBorder(src, dst, top, bottom, left, right, cv::BORDER_REPLICATE)
copyMakeBorder(src, top, bottom, left, right) ==
    LET f(r, c) == At(src, Clamp(r - top, 0, src.rows - 1), Clamp(c - left, 0, src.cols - 1))
    IN Mat(src.rows + top + bottom, src.cols + left + right, f)

\* im(cv::Rect(x, y, width, height)) copied out
Roi(m, x, y, width, height) ==
    LET f(r, c) == At(m, y + r, x + c)
    IN Mat(height, width, f)

-----------------------------------------------------------------------------
(* Waifu2x::PaddingImage: the canvas is grown to multiples of output_size;   *)
(* the source names the block count of the width h_blocks and that of the    *)
(* height w_blocks, and the model keeps that naming.                         *)

\* top, bottom, left, right handed to cv::copyMakeBorder for an input of
\* cols x rows
PadAmounts_RoundedDown(cols, rows) ==
    LET h_blocks == cols \div output_size
        w_blocks == rows \div output_size
        height == offset + h_blocks * output_size + offset
        width == offset + w_blocks * output_size + offset
        pad_h1 == offset
        pad_w1 == offset
        pad_h2 == (height - offset) - cols
        pad_w2 == (width - offset) - rows
    IN [top |-> pad_w1, bottom |-> pad_w2, left |-> pad_h1, right |-> pad_h2]

PadAmounts(cols, rows) ==
    LET h_blocks == (cols \div output_size) + (IF cols % output_size = 0 THEN 0 ELSE 1)
        w_blocks == (rows \div output_size) + (IF rows % output_size = 0 THEN 0 ELSE 1)
        height == offset + h_blocks * output_size + offset
        width == offset + w_blocks * output_size + offset
        pad_h1 == offset
        pad_w1 == offset
        pad_h2 == (height - offset) - cols
        pad_w2 == (width - offset) - rows
    IN [top |-> pad_w1, bottom |-> pad_w2, left |-> pad_h1, right |-> pad_h2]

PaddingImage_TopLeft(input) ==
    LET pa == PadAmounts(input.cols, input.rows)
    IN copyMakeBorder(input, pa.bottom, pa.top, pa.right, pa.left)

PaddingImage(input) ==
    LET pa == PadAmounts(input.cols, input.rows)
    IN copyMakeBorder(input, pa.top, pa.bottom, pa.left, pa.right)

-----------------------------------------------------------------------------
(* Waifu2x::ReconstructImage, the geometry of one tile *)

\* const int processNum = (BlockNum - num) >= batch_size ? batch_size : BlockNum - num;
ProcessNum(BlockNum, n0, bs) == IF (BlockNum - n0) >= bs THEN bs ELSE BlockNum - n0

\* if (processNum < batch_size) input_layer->set_batch_size(processNum);
SetBatchSize_Never(cur, processNum, bs) == cur

SetBatchSize(cur, processNum, bs) == IF processNum < bs THEN processNum ELSE cur

\* wn, hn, w, h of tile k (k = num + n)
TileOrigin_SameIndex(k, WidthNum) ==
    LET wn == k % WidthNum
    IN [w |-> wn * output_size, h |-> wn * output_size]

TileOrigin(k, WidthNum) ==
    LET wn == k % WidthNum
        hn == k \div WidthNum
    IN [w |-> wn * output_size, h |-> hn * output_size]

\* x, y, width, height, top, bottom, left, right of the tile at (w, h)
ContextWindow_Dropped(w, h, Width, Height) ==
    LET x0 == w - inner_padding
        y0 == h - inner_padding
        width0 == crop_size + inner_padding * 2
        height0 == crop_size + inner_padding * 2
        x1 == IF x0 < 0 THEN 0 ELSE x0
        width1 == IF x0 < 0 THEN width0 - (-x0) ELSE width0
        width2 == IF x1 + width1 > Width THEN Width - x1 ELSE width1
        y1 == IF y0 < 0 THEN 0 ELSE y0
        height1 == IF y0 < 0 THEN height0 - (-y0) ELSE height0
        height2 == IF y1 + height1 > Height THEN Height - y1 ELSE height1
    IN [x |-> x1, y |-> y1, width |-> width2, height |-> height2,
        top |-> outer_padding, bottom |-> outer_padding,
        left |-> outer_padding, right |-> outer_padding]

ContextWindow(w, h, Width, Height) ==
    LET x0 == w - inner_padding
        y0 == h - inner_padding
        width0 == crop_size + inner_padding * 2
        height0 == crop_size + inner_padding * 2
        top0 == outer_padding
        bottom0 == outer_padding
        left0 == outer_padding
        right0 == outer_padding
        \* if (x < 0)
        left1 == IF x0 < 0 THEN left0 + (-x0) ELSE left0
        width1 == IF x0 < 0 THEN width0 - (-x0) ELSE width0
        x1 == IF x0 < 0 THEN 0 ELSE x0
        \* if (x + width > Width)
        right1 == IF x1 + width1 > Width THEN right0 + (x1 + width1) - Width ELSE right0
        width2 == IF x1 + width1 > Width THEN Width - x1 ELSE width1
        \* if (y < 0)
        top1 == IF y0 < 0 THEN top0 + (-y0) ELSE top0
        height1 == IF y0 < 0 THEN height0 - (-y0) ELSE height0
        y1 == IF y0 < 0 THEN 0 ELSE y0
        \* if (y + height > Height)
        bottom1 == IF y1 + height1 > Height THEN bottom0 + (y1 + height1) - Height ELSE bottom0
        height2 == IF y1 + height1 > Height THEN Height - y1 ELSE height1
    IN [x |-> x1, y |-> y1, width |-> width2, height |-> height2,
        top |-> top1, bottom |-> bottom1, left |-> left1, right |-> right1]

\* someborderimg of tile k: the context rectangle, edge-replicated to a full tile
ExtractTile(canvas, k) ==
    LET o == TileOrigin(k, canvas.cols \div output_size)
        cw == ContextWindow(o.w, o.h, canvas.cols, canvas.rows)
        someimg_tmp == Roi(canvas, cw.x, cw.y, cw.width, cw.height)
    IN copyMakeBorder(someimg_tmp, cw.top, cw.bottom, cw.left, cw.right)

\* the serialization of tile k into slot n of buf (the row copies of lines 546-559)
SerializeTile(canvas, buf, n, k) ==
    LET o == TileOrigin(k, canvas.cols \div output_size)
        someborderimg == ExtractTile(canvas, k)
        Line == someborderimg.cols
        first == input_block_plane_size * n
    IN IF o.w + crop_size <= canvas.cols /\ o.h + crop_size <= canvas.rows
         THEN [j \in DOMAIN buf |->
                 IF j >= first /\ j < first + input_block_plane_size
                   THEN LET i == (j - first) \div input_block_size
                            c == (j - first) % input_block_size
                        IN IF (i * Line + c) \in DOMAIN someborderimg.data
                             THEN someborderimg.data[i * Line + c]
                             ELSE Uninit
                   ELSE buf[j]]
         ELSE buf

\* the tiles n0 .. n0+pn-1 serialized into the slots 0 .. pn-1 of buf
RECURSIVE SerializeTiles(_, _, _, _, _)
SerializeTiles(canvas, buf, n, pn, n0) ==
    IF n >= pn THEN buf
    ELSE SerializeTiles(canvas, SerializeTile(canvas, buf, n, n0 + n), n + 1, pn, n0)

Serialize(canvas, buf, n0, pn) == SerializeTiles(canvas, buf, 0, pn, n0)

\* The engines of the reconstruction properties. The layer_num convolutions
\* of the net each take one pixel off every side of each tile; the
\* passthrough engine otherwise leaves the samples unchanged, and the biased
\* engine adds a constant to each, so that what it returns is told from what
\* it was given.
Engines == {"passthrough", "biased"}

EngineSample(v) == IF engine = "biased" THEN v + 1000 ELSE v

\* the net processes as many tiles as the input layer was told
EngineForward(inbuf, nb) ==
    [j \in 0..(output_block_plane_size * nb - 1) |->
        LET t == j \div output_block_plane_size
            r == (j % output_block_plane_size) \div output_block_size
            c == (j % output_block_plane_size) % output_block_size
        IN EngineSample(inbuf[t * input_block_plane_size + (r + layer_num) * input_block_size + (c + layer_num)])]

\* caffe::caffe_copy(output_block_plane_size * processNum, ptr, output_block)
CopyOut(outbuf, b, pn) ==
    [j \in DOMAIN outbuf |->
        IF j < output_block_plane_size * pn
          THEN (IF j \in DOMAIN b THEN b[j] ELSE Uninit)
          ELSE outbuf[j]]

\* rows i of tile origin o whose memcpy writes canvas address p
StitchHits(p, o, Line) ==
    {i \in 0..(crop_size - 1) : (p - ((o.h + i) * Line + o.w)) \in 0..(crop_size - 1)}

SetMax(S) == CHOOSE m \in S : \A x \in S : x <= m

\* the crop_size memcpy's of result slot n into the canvas data at tile k
StitchTile(data, outbuf, n, k, WidthNum, Line) ==
    LET o == TileOrigin(k, WidthNum)
        fptr == output_block_plane_size * n
    IN [p \in DOMAIN data |->
          LET hits == StitchHits(p, o, Line)
          IN IF hits = {} THEN data[p]
             ELSE LET i == SetMax(hits)
                      col == p - ((o.h + i) * Line + o.w)
                  IN outbuf[fptr + (i + output_padding) * output_block_size + output_padding + col]]

RECURSIVE StitchTiles(_, _, _, _, _, _, _)
StitchTiles(data, outbuf, n, pn, n0, WidthNum, Line) ==
    IF n >= pn THEN data
    ELSE StitchTiles(StitchTile(data, outbuf, n, n0 + n, WidthNum, Line),
                     outbuf, n + 1, pn, n0, WidthNum, Line)

\* the memcpy's of tile k added to the write counts
CountTile(wr, k, WidthNum, Line) ==
    LET o == TileOrigin(k, WidthNum)
    IN [p \in DOMAIN wr |-> wr[p] + Cardinality(StitchHits(p, o, Line))]

RECURSIVE CountTiles(_, _, _, _, _, _)
CountTiles(wr, n, pn, n0, WidthNum, Line) ==
    IF n >= pn THEN wr
    ELSE CountTiles(CountTile(wr, n0 + n, WidthNum, Line), n + 1, pn, n0, WidthNum, Line)

CountWrites(wr, pn, n0, WidthNum, Line) == CountTiles(wr, 0, pn, n0, WidthNum, Line)

\* The whole batch loop of ReconstructImage on a canvas with batch size bs,
\* as one function: the data of outim when the loop is left.
RECURSIVE PassLoop(_, _, _, _, _, _)
PassLoop(canvas, data, inbuf, outbuf, n0, bs) ==
    LET WidthNum == canvas.cols \div output_size
        HeightNum == canvas.rows \div output_size
        BlockNum == WidthNum * HeightNum
        processNum == ProcessNum(BlockNum, n0, bs)
        nb == SetBatchSize(bs, processNum, bs)
        inbuf2 == Serialize(canvas, inbuf, n0, processNum)
        b == EngineForward(inbuf2, nb)
        outbuf2 == CopyOut(outbuf, b, processNum)
        data2 == StitchTiles(data, outbuf2, 0, processNum, n0, WidthNum, canvas.cols)
    IN IF n0 >= BlockNum THEN data
       ELSE PassLoop(canvas, data2, inbuf2, outbuf2, n0 + bs, bs)

UninitData(n) == [i \in 0..(n - 1) |-> Uninit]

ReconstructWith(canvas, bs) ==
    [rows |-> canvas.rows, cols |-> canvas.cols,
     data |-> PassLoop(canvas, UninitData(canvas.rows * canvas.cols),
                       UninitData(input_block_plane_size * bs),
                       UninitData(output_block_plane_size * bs), 0, bs)]

-----------------------------------------------------------------------------
(* The instance (init, destroy) and one call of waifu2x(), at the level of   *)
(* sizes, passes, polls and return values.                                   *)

\* scale ratios are multiples of 1/4: such doubles, their quotients by powers
\* of two and their products with image sizes are exact
RatioUnit == 2 * 2

Modes == {"noise", "scale", "noise_scale", "auto_scale"}

RECURSIVE Pow2(_)
Pow2(n) == IF n <= 0 THEN 1 ELSE 2 * Pow2(n - 1)

\* ceil(log2(r / RatioUnit)) for r > 0: the least k with r / RatioUnit <= 2^k
RECURSIVE CeilLog2Up(_, _)
CeilLog2Up(r, k) == IF r <= RatioUnit * Pow2(k) THEN k ELSE CeilLog2Up(r, k + 1)

RECURSIVE CeilLog2Down(_, _)
CeilLog2Down(r, k) == IF r * Pow2(k + 1) <= RatioUnit THEN CeilLog2Down(r, k + 1) ELSE 0 - k

CeilLog2(r) == IF r > RatioUnit THEN CeilLog2Up(r, 1) ELSE CeilLog2Down(r, 0)

\* const int scale2 = ceil(log2(scale_ratio));
Scale2_Floor(r) == IF CeilLog2(r) > 0 /\ r < RatioUnit * Pow2(CeilLog2(r)) THEN CeilLog2(r) - 1 ELSE CeilLog2(r)

Scale2(r) == CeilLog2(r)

\* const double shrinkRatio = scale_ratio / std::pow(2.0, (double)scale2), as the
\* fraction n / d
ShrinkRatio(r) ==
    IF Scale2(r) >= 0 THEN [n |-> r, d |-> RatioUnit * Pow2(Scale2(r))]
    ELSE [n |-> r * Pow2(0 - Scale2(r)), d |-> RatioUnit]

\* const cv::Size_<int> ns(image_size.width * shrinkRatio, image_size.height * shrinkRatio);
Shrunk(sz, sr) ==
    [width |-> (sz.width * sr.n) \div sr.d, height |-> (sz.height * sr.n) \div sr.d]

\* isReconstructNoise, isReconstructScale of waifu2x()
IsReconstructNoise_AnyAuto(m, isJpeg) ==
    m = "noise" \/ m = "noise_scale" \/ m = "auto_scale"

IsReconstructNoise(m, isJpeg) ==
    m = "noise" \/ m = "noise_scale" \/ (m = "auto_scale" /\ isJpeg)

IsReconstructScale(m) == m = "scale" \/ m = "noise_scale"

\* size of the canvas PaddingImage makes of a plane of size sz
PaddedSize(sz) ==
    LET pa == PadAmounts(sz.width, sz.height)
    IN [width |-> sz.width + pa.left + pa.right, height |-> sz.height + pa.top + pa.bottom]

NoFile == [width |-> 0, height |-> 0, isJpeg |-> FALSE, readable |-> FALSE]
NoSize == [width |-> 0, height |-> 0]
NoRatio == [n |-> 0, d |-> 1]
NoCancel == [pc |-> "never", iter |-> 0]
NoOutput == [written |-> FALSE, width |-> 0, height |-> 0]
NoConfig == [mode |-> "", scale_ratio |-> 0, crop_size |-> 0, batch_size |-> 0,
             net_noise |-> "null", net_scale |-> "null", block_len |-> 0]

NoInitCall == [called |-> FALSE, inited |-> FALSE, cfg |-> NoConfig, nonpositive |-> FALSE]

Config == [mode |-> mode, scale_ratio |-> scale_ratio, crop_size |-> crop_size,
           batch_size |-> batch_size, net_noise |-> net_noise, net_scale |-> net_scale,
           block_len |-> block_len]

\* one step of a call: what was done, with which net, on which canvas
Ev(ev, net, sz) == [ev |-> ev, net |-> net, width |-> sz.width, height |-> sz.height]

\* no call of waifu2x() in progress, none returned
CallIdle ==
    /\ pc = "idle"
    /\ file = NoFile
    /\ has_probe = FALSE
    /\ cancel = FALSE
    /\ cancel_at = NoCancel
    /\ image_size = NoSize
    /\ im_size = NoSize
    /\ scale2 = 0
    /\ shrinkRatio = NoRatio
    /\ iter = 0
    /\ ret = "none"
    /\ trace = <<>>
    /\ output = NoOutput
    /\ call_inited = FALSE

\* the instance fields after a successful init(m, r, crop, batch) (crop_size
\* and batch_size apart)
InstanceAfterInit(m, r, crop, batch) ==
    /\ is_inited = TRUE
    /\ mode = m
    /\ scale_ratio = r
    /\ net_noise = (IF m \in {"noise", "noise_scale", "auto_scale"} THEN "loaded" ELSE "null")
    /\ net_scale = (IF m \in {"scale", "noise_scale", "auto_scale"} THEN "loaded" ELSE "null")
    /\ block_len = (crop + 2 * (layer_num + 1)) * (crop + 2 * (layer_num + 1)) * batch
    /\ init_ret = "OK"
    /\ init_pre = NoInitCall
    /\ init_succeeded = TRUE

-----------------------------------------------------------------------------
(* SpecPass: the denoise branch of waifu2x() on one plane, pixel by pixel:   *)
(* PaddingImage, ReconstructImage batch by batch, crop back.                 *)

\* planes the pass is run on: all samples distinct, or a two-valued pattern
Image(w, h, pat) ==
    LET f(r, c) == IF pat = "id" THEN r * w + c + 1 ELSE (r + c) % 2
    IN Mat(h, w, f)

\* the case of the specification: 10x10, crop_size 4, batch_size 2
ScenarioConfig == [w |-> 10, h |-> 10, crop |-> 4, batch |-> 2, pat |-> "id",
                   engine |-> "passthrough"]

\* canvases wider, taller or both than the context window of a crop_size 1 tile
\* (1 + 2 * inner_padding = 15), so that tiles with an unclipped window exist
WideConfigs ==
    {[w |-> 16, h |-> 1, crop |-> 1, batch |-> 3, pat |-> "id", engine |-> "passthrough"],
     [w |-> 1, h |-> 16, crop |-> 1, batch |-> 3, pat |-> "id", engine |-> "passthrough"],
     [w |-> 15, h |-> 15, crop |-> 1, batch |-> 4, pat |-> "id", engine |-> "passthrough"]}

PassConfigs ==
    [w : 1..MaxDim, h : 1..MaxDim, crop : 1..MaxCrop, batch : 1..MaxBatch,
     pat : {"id", "checker"}, engine : Engines]
    \cup {ScenarioConfig} \cup WideConfigs

InitPass ==
    \E cfg \in PassConfigs :
        /\ crop_size = cfg.crop
        /\ batch_size = cfg.batch
        /\ float_plane = Image(cfg.w, cfg.h, cfg.pat)
        /\ im = Image(cfg.w, cfg.h, cfg.pat)
        /\ pass_in = EmptyMat
        /\ outim = EmptyMat
        /\ input_block = UninitData((cfg.crop + 2 * (layer_num + 1)) * (cfg.crop + 2 * (layer_num + 1)) * cfg.batch)
        /\ output_block = UninitData((cfg.crop + 2) * (cfg.crop + 2) * cfg.batch)
        /\ net_batch = 1
        /\ num = 0
        /\ rpc = "start"
        /\ rret = "none"
        /\ written = UninitData(0)
        /\ calls = <<>>
        /\ windows = <<>>
        /\ engine = cfg.engine
        /\ InstanceAfterInit("noise", RatioUnit, cfg.crop, cfg.batch)
        /\ CallIdle

\* waifu2x(): PaddingImage(im, im)
DoPadding ==
    /\ rpc = "start"
    /\ im' = PaddingImage(im)
    /\ rpc' = "padded"
    /\ UNCHANGED callvars
    /\ UNCHANGED <<crop_size, batch_size, engine, float_plane, pass_in, outim, input_block,
                   output_block, net_batch, num, rret, written, calls, windows>>

\* ReconstructImage entry: outim allocated, set_batch_size(batch_size), num = 0
ReconstructBegin ==
    /\ rpc = "padded"
    /\ pass_in' = im
    /\ outim' = [rows |-> im.rows, cols |-> im.cols, data |-> UninitData(im.rows * im.cols)]
    /\ written' = [p \in 0..(im.rows * im.cols - 1) |-> 0]
    /\ net_batch' = batch_size
    /\ num' = 0
    /\ calls' = <<>>
    /\ rpc' = "loop"
    /\ UNCHANGED callvars
    /\ UNCHANGED <<crop_size, batch_size, engine, float_plane, im, input_block, output_block,
                   rret, windows>>

WidthNumOf(m) == m.cols \div output_size
HeightNumOf(m) == m.rows \div output_size
BlockNumOf(m) == WidthNumOf(m) * HeightNumOf(m)

\* one turn of the batch loop up to the engine call: processNum, the reduced
\* batch size, and the extraction and serialization of the tiles of the batch
SerializeBatch ==
    /\ rpc = "loop"
    /\ num < BlockNumOf(im)
    /\ LET processNum == ProcessNum(BlockNumOf(im), num, batch_size)
       IN /\ net_batch' = SetBatchSize(net_batch, processNum, batch_size)
          /\ input_block' = Serialize(im, input_block, num, processNum)
          /\ windows' = [n \in 1..processNum |->
                            LET o == TileOrigin(num + n - 1, WidthNumOf(im))
                            IN ContextWindow(o.w, o.h, im.cols, im.rows)]
    /\ rpc' = "forward"
    /\ UNCHANGED callvars
    /\ UNCHANGED <<crop_size, batch_size, engine, float_plane, pass_in, im, outim, output_block,
                   num, rret, written, calls>>

\* input_layer->Reset, net->ForwardPrefilled, caffe_copy: the engine returns
\* one result tile per tile it was told of
ForwardOk ==
    /\ rpc = "forward"
    /\ LET processNum == ProcessNum(BlockNumOf(im), num, batch_size)
       IN /\ output_block' = CopyOut(output_block, EngineForward(input_block, net_batch), processNum)
          /\ calls' = Append(calls, [told |-> net_batch, serialized |-> processNum, ok |-> TRUE])
    /\ rpc' = "stitch"
    /\ UNCHANGED callvars
    /\ UNCHANGED <<crop_size, batch_size, engine, float_plane, pass_in, im, outim, input_block,
                   net_batch, num, rret, written, windows>>

\* the engine throws: catch (...) returns eWaifu2xError_FailedProcessCaffe,
\* im = outim is not reached
ForwardThrows ==
    /\ rpc = "forward"
    /\ LET processNum == ProcessNum(BlockNumOf(im), num, batch_size)
       IN calls' = Append(calls, [told |-> net_batch, serialized |-> processNum, ok |-> FALSE])
    /\ rret' = "FailedProcessCaffe"
    /\ rpc' = "failed"
    /\ UNCHANGED callvars
    /\ UNCHANGED <<crop_size, batch_size, engine, float_plane, pass_in, im, outim, input_block,
                   output_block, net_batch, num, written, windows>>

\* im after the memcpy's of a batch. With float *imptr = (float *)im.data, the
\* line the source has commented out, they would land in im itself.
ImAfterStitch_InPlace(canvas, data, wr) ==
    [canvas EXCEPT !.data = [p \in DOMAIN canvas.data |->
                                IF p \in DOMAIN wr /\ wr[p] > 0 /\ p \in DOMAIN data
                                  THEN data[p] ELSE canvas.data[p]]]

\* float *imptr = (float *)outim.data: the memcpy's land in outim, a buffer of
\* its own, and im is as it was
ImAfterStitch(canvas, data, wr) == canvas

\* the stitching loop of the batch, then num += batch_size
StitchBatch ==
    /\ rpc = "stitch"
    /\ LET processNum == ProcessNum(BlockNumOf(im), num, batch_size)
           Line == im.cols
           data == StitchTiles(outim.data, output_block, 0, processNum, num,
                               WidthNumOf(im), Line)
           wr == CountWrites(written, processNum, num, WidthNumOf(im), Line)
       IN /\ outim' = [outim EXCEPT !.data = data]
          /\ written' = wr
          /\ im' = ImAfterStitch(im, data, wr)
    /\ num' = num + batch_size
    /\ rpc' = "loop"
    /\ UNCHANGED callvars
    /\ UNCHANGED <<crop_size, batch_size, engine, float_plane, pass_in, input_block,
                   output_block, net_batch, rret, calls, windows>>

\* the loop is left: im = outim; return eWaifu2xError_OK
ReconstructEnd ==
    /\ rpc = "loop"
    /\ num >= BlockNumOf(im)
    /\ im' = outim
    /\ rret' = "OK"
    /\ rpc' = "reconstructed"
    /\ UNCHANGED callvars
    /\ UNCHANGED <<crop_size, batch_size, engine, float_plane, pass_in, outim, input_block,
                   output_block, net_batch, num, written, calls, windows>>

\* waifu2x(): im = im(cv::Rect(offset, offset, image_size.width, image_size.height))
CropBack ==
    /\ rpc = "reconstructed"
    /\ im' = Roi(im, offset, offset, float_plane.cols, float_plane.rows)
    /\ rpc' = "cropped"
    /\ UNCHANGED callvars
    /\ UNCHANGED <<crop_size, batch_size, engine, float_plane, pass_in, outim, input_block,
                   output_block, net_batch, num, rret, written, calls, windows>>

NextPass ==
    \/ DoPadding
    \/ ReconstructBegin
    \/ SerializeBatch
    \/ ForwardOk
    \/ ForwardThrows
    \/ StitchBatch
    \/ ReconstructEnd
    \/ CropBack

SpecPass == InitPass /\ [][NextPass]_vars

-----------------------------------------------------------------------------
(* Properties of the pass (SpecPass) *)

PassRunning == rpc \in {"loop", "forward", "stitch", "failed"}
PassDone == rpc \in {"reconstructed", "cropped"}

\* C1: over one pass of ReconstructImage the crop_size x crop_size regions
\* written for the tiles 0 .. BlockNum-1 cover the canvas exactly once: while
\* the pass runs no address of the canvas has been written twice, and when the
\* pass has finished every address of the canvas has been written exactly once.
C1_CoresCoverCanvasOnce ==
    /\ (PassRunning \/ PassDone) =>
           /\ DOMAIN written = 0..(pass_in.rows * pass_in.cols - 1)
           /\ \A p \in DOMAIN written : written[p] <= 1
    /\ PassDone => \A p \in DOMAIN written : written[p] = 1

C1_Witness ==
    /\ rpc = "reconstructed"
    /\ WidthNumOf(pass_in) > 1
    /\ HeightNumOf(pass_in) > WidthNumOf(pass_in)
    /\ BlockNumOf(pass_in) > batch_size
    /\ \A p \in DOMAIN written : written[p] = 1

WindowInCanvas(cw, Width, Height) ==
    /\ 0 <= cw.x
    /\ 0 <= cw.y
    /\ cw.width > 0
    /\ cw.height > 0
    /\ cw.x + cw.width <= Width
    /\ cw.y + cw.height <= Height

WindowFillsBlock(cw) ==
    /\ cw.left + cw.width + cw.right = input_block_size
    /\ cw.top + cw.height + cw.bottom = input_block_size

\* C2: every context window ReconstructImage computes lies inside the canvas,
\* is not empty, and together with its four padding amounts is exactly
\* input_block_size wide and high.
C2_ContextWindowClamped ==
    \A n \in DOMAIN windows :
        /\ WindowInCanvas(windows[n], pass_in.cols, pass_in.rows)
        /\ WindowFillsBlock(windows[n])

\* a batch holding a window clipped on all four sides (a canvas smaller than
\* the window in both directions) ...
C2_Witness ==
    \E n \in DOMAIN windows :
        /\ windows[n].left > outer_padding /\ windows[n].right > outer_padding
        /\ windows[n].top > outer_padding /\ windows[n].bottom > outer_padding

\* ... and a batch holding a window clipped on no side
C2_WitnessUnclipped ==
    \E n \in DOMAIN windows :
        /\ windows[n].left = outer_padding /\ windows[n].right = outer_padding
        /\ windows[n].top = outer_padding /\ windows[n].bottom = outer_padding

\* what the batch loop tells the engine on its i-th call for a canvas of
\* BlockNum tiles: batch_size, but BlockNum mod batch_size on a last call that
\* is not full
ExpectedBatch(i, BlockNum) ==
    IF i * batch_size <= BlockNum THEN batch_size ELSE BlockNum % batch_size

\* C3: with the passthrough engine a pass with batch_size produces the canvas
\* that the same pass with batch size 1 produces; every engine call is told
\* batch_size, except a last call that is not full, which is told
\* BlockNum mod batch_size; and the size told is the number of tiles
\* serialized for the call.
C3_BatchSizeIrrelevant ==
    /\ (PassRunning \/ PassDone) =>
          \A i \in DOMAIN calls :
              /\ calls[i].told = calls[i].serialized
              /\ calls[i].told = ExpectedBatch(i, BlockNumOf(pass_in))
              /\ calls[i].told >= 1
    /\ rpc = "reconstructed" => im = ReconstructWith(pass_in, 1)

C3_Witness ==
    /\ rpc = "reconstructed"
    /\ batch_size > 1
    /\ BlockNumOf(pass_in) > batch_size
    /\ BlockNumOf(pass_in) % batch_size # 0
    /\ calls[Len(calls)].told = BlockNumOf(pass_in) % batch_size
    /\ im = ReconstructWith(pass_in, 1)

\* C4: padding, a pass with the passthrough engine and the crop back to (w, h)
\* return the plane that was put in (with the biased engine, that plane with
\* the bias added to every sample); the padded canvas holds the plane
\* unchanged in its top-left w x h corner and is nowhere smaller than it.
C4_PadReconstructCropIdentity ==
    /\ rpc = "padded" =>
          /\ im.cols >= float_plane.cols
          /\ im.rows >= float_plane.rows
          /\ Roi(im, 0, 0, float_plane.cols, float_plane.rows) = float_plane
    /\ (rpc = "cropped" /\ engine = "passthrough") => im = float_plane
    /\ (rpc = "cropped" /\ engine = "biased") =>
          im = [float_plane EXCEPT !.data = [p \in DOMAIN float_plane.data |->
                                                float_plane.data[p] + 1000]]

\* the case of the specification: 10x10, crop_size 4, batch_size 2
C4_Witness ==
    /\ rpc = "cropped"
    /\ float_plane.cols = 10 /\ float_plane.rows = 10
    /\ crop_size = 4 /\ batch_size = 2
    /\ engine = "passthrough"
    /\ pass_in.cols = 12 /\ pass_in.rows = 12
    /\ im = float_plane

-----------------------------------------------------------------------------
(* Spec: init, destroy and waifu2x() on one instance *)

runvars == <<pc, file, has_probe, cancel, cancel_at, image_size, im_size, scale2,
             shrinkRatio, iter, ret, trace, output, call_inited>>

\* the pixel-level variables are not used at this level
PassIdle ==
    /\ float_plane = EmptyMat
    /\ pass_in = EmptyMat
    /\ im = EmptyMat
    /\ outim = EmptyMat
    /\ input_block = UninitData(0)
    /\ output_block = UninitData(0)
    /\ net_batch = 0
    /\ num = 0
    /\ rpc = "none"
    /\ rret = "none"
    /\ written = UninitData(0)
    /\ calls = <<>>
    /\ windows = <<>>
    /\ engine = "none"

\* Waifu2x::Waifu2x(): is_inited(false), the buffers nullptr
Init ==
    /\ is_inited = FALSE
    /\ mode = ""
    /\ scale_ratio = 0
    /\ crop_size = 0
    /\ batch_size = 0
    /\ net_noise = "null"
    /\ net_scale = "null"
    /\ block_len = 0
    /\ init_ret = "none"
    /\ init_pre = NoInitCall
    /\ init_succeeded = FALSE
    /\ CallIdle
    /\ PassIdle

\* arguments of init() and what its environment lets it do
RatioArgs == (0 - 1)..MaxRatio
CropArgs == (MaxCrop - 1)..MaxCrop
BatchArgs == {MaxBatch}
InitOutcomes == {"ok", "cuda", "model_dir", "noise_net", "noise_param", "scale_net",
                 "scale_param", "alloc"}

NeedsNoise(m) == m = "noise" \/ m = "noise_scale" \/ m = "auto_scale"
NeedsScale(m) == m = "scale" \/ m = "noise_scale" \/ m = "auto_scale"

\* if (ScaleRatio <= 0.0) return eWaifu2xError_InvalidParameter;
InvalidRatio(ScaleRatio) == ScaleRatio <= 0

\* the value init() returns when its environment lets it get as far as outcome
InitReturn(outcome) ==
    CASE outcome = "ok" -> "OK"
      [] outcome = "cuda" -> "FailedCudaCheck"
      [] outcome = "model_dir" -> "FailedOpenModelFile"
      [] outcome = "noise_net" -> "FailedOpenModelFile"
      [] outcome = "noise_param" -> "FailedParseModelFile"
      [] outcome = "scale_net" -> "FailedOpenModelFile"
      [] outcome = "scale_param" -> "FailedConstructModel"
      [] outcome = "alloc" -> "InvalidParameter"

\* is_inited = true is reached only on the path that returns OK
InitedAfter(outcome) == outcome = "ok"

\* Waifu2x::init
InitCall(Mode, ScaleRatio, CropSize, BatchSize, outcome) ==
    /\ pc = "idle"
    /\ init_pre' = [called |-> TRUE, inited |-> is_inited,
                    cfg |-> IF is_inited THEN Config ELSE NoConfig,
                    nonpositive |-> (ScaleRatio <= 0)]
    /\ IF is_inited
         THEN /\ init_ret' = "OK"
              /\ UNCHANGED <<is_inited, mode, scale_ratio, crop_size, batch_size,
                             net_noise, net_scale, block_len>>
         ELSE IF InvalidRatio(ScaleRatio)
         THEN /\ init_ret' = "InvalidParameter"
              /\ UNCHANGED <<is_inited, mode, scale_ratio, crop_size, batch_size,
                             net_noise, net_scale, block_len>>
         ELSE /\ mode' = Mode
              /\ scale_ratio' = ScaleRatio
              /\ crop_size' = CropSize
              /\ batch_size' = BatchSize
              /\ outcome \in {"noise_net", "noise_param"} => NeedsNoise(Mode)
              /\ outcome \in {"scale_net", "scale_param"} => NeedsScale(Mode)
              /\ net_noise' = (IF NeedsNoise(Mode) /\ outcome \notin {"cuda", "model_dir", "noise_net"}
                                 THEN "loaded" ELSE net_noise)
              /\ net_scale' = (IF NeedsScale(Mode)
                                    /\ outcome \notin {"cuda", "model_dir", "noise_net",
                                                       "noise_param", "scale_net"}
                                 THEN "loaded" ELSE net_scale)
              /\ block_len' = (IF outcome = "ok"
                                 THEN (CropSize + (layer_num + 1) * 2) * (CropSize + (layer_num + 1) * 2) * BatchSize
                                 ELSE block_len)
              /\ is_inited' = InitedAfter(outcome)
              /\ init_ret' = InitReturn(outcome)
    /\ init_succeeded' = (init_succeeded \/ init_ret' = "OK")
    /\ UNCHANGED runvars
    /\ UNCHANGED passvars

\* is_inited = false; at the end of destroy()
InitedAfterDestroy_Kept == is_inited

InitedAfterDestroy == FALSE

\* Waifu2x::destroy
Destroy ==
    /\ pc = "idle"
    /\ net_noise' = "null"
    /\ net_scale' = "null"
    /\ block_len' = 0
    /\ is_inited' = InitedAfterDestroy
    /\ init_succeeded' = FALSE
    /\ init_ret' = "none"
    /\ init_pre' = NoInitCall
    /\ UNCHANGED <<mode, scale_ratio, crop_size, batch_size>>
    /\ UNCHANGED runvars
    /\ UNCHANGED passvars

instvars == <<is_inited, mode, scale_ratio, crop_size, batch_size, net_noise, net_scale,
              block_len, init_succeeded>>

Files ==
    [width : 1..MaxImage, height : 1..MaxImage, isJpeg : BOOLEAN, readable : {TRUE}]
    \cup {NoFile}

SizeOf(f) == [width |-> f.width, height |-> f.height]

\* waifu2x() up to the denoise branch: the is_inited check, LoadImage,
\* CreateBrightnessImage, image_size = im.size()
Waifu2xCall(f, probe) ==
    /\ pc = "idle"
    /\ file' = f
    /\ has_probe' = probe
    /\ call_inited' = init_succeeded
    /\ init_ret' = "none"
    /\ init_pre' = NoInitCall
    /\ IF ~is_inited
         THEN /\ ret' = "NotInitialized"
              /\ pc' = "done"
              /\ UNCHANGED <<trace, image_size, im_size>>
         ELSE IF ~f.readable
         THEN /\ ret' = "FailedOpenInputFile"
              /\ pc' = "done"
              /\ trace' = Append(trace, Ev("load_failed", "none", NoSize))
              /\ UNCHANGED <<image_size, im_size>>
         ELSE /\ ret' = "none"
              /\ pc' = "denoise"
              /\ trace' = Append(trace, Ev("load", "none", SizeOf(f)))
              /\ image_size' = SizeOf(f)
              /\ im_size' = SizeOf(f)
    /\ UNCHANGED <<cancel, cancel_at, scale2, shrinkRatio, iter, output>>
    /\ UNCHANGED instvars
    /\ UNCHANGED passvars

\* ret = ReconstructImage(...); if (ret != eWaifu2xError_OK) return ret;
AfterReconstruct_Ignored(r, next) == next

AfterReconstruct(r, next) == IF r # "OK" THEN "done" ELSE next

\* if (isReconstructNoise): PaddingImage, ReconstructImage(net_noise, im), crop
Denoise(r) ==
    /\ pc = "denoise"
    /\ IsReconstructNoise(mode, file.isJpeg)
    /\ trace' = Append(trace, Ev(IF r = "OK" THEN "pass" ELSE "pass_failed", "noise",
                                 PaddedSize(im_size)))
    /\ ret' = (IF r = "OK" THEN ret ELSE r)
    /\ im_size' = (IF r = "OK" THEN image_size ELSE PaddedSize(im_size))
    /\ pc' = AfterReconstruct(r, "poll1")
    /\ UNCHANGED <<file, has_probe, cancel, cancel_at, image_size, scale2, shrinkRatio,
                   iter, output, call_inited, init_ret, init_pre>>
    /\ UNCHANGED instvars
    /\ UNCHANGED passvars

DenoiseSkipped ==
    /\ pc = "denoise"
    /\ ~IsReconstructNoise(mode, file.isJpeg)
    /\ pc' = "poll1"
    /\ UNCHANGED <<file, has_probe, cancel, cancel_at, image_size, im_size, scale2,
                   shrinkRatio, iter, ret, trace, output, call_inited, init_ret, init_pre>>
    /\ UNCHANGED instvars
    /\ UNCHANGED passvars

\* if (cancel_func && cancel_func()) return eWaifu2xError_Cancel;
Polled(to) ==
    /\ IF has_probe
         THEN trace' = Append(trace, Ev(IF cancel THEN "poll_true" ELSE "poll_false",
                                        "none", NoSize))
         ELSE UNCHANGED trace
    /\ IF has_probe /\ cancel
         THEN /\ ret' = "Cancel"
              /\ pc' = "done"
         ELSE /\ UNCHANGED ret
              /\ pc' = to

\* the poll of line 806, then scale2 and shrinkRatio
Poll1 ==
    /\ pc = "poll1"
    /\ Polled("upscale")
    /\ IF has_probe /\ cancel
         THEN UNCHANGED <<scale2, shrinkRatio>>
         ELSE /\ scale2' = Scale2(scale_ratio)
              /\ shrinkRatio' = ShrinkRatio(scale_ratio)
    /\ iter' = 0
    /\ UNCHANGED <<file, has_probe, cancel, cancel_at, image_size, im_size, output,
                   call_inited, init_ret, init_pre>>
    /\ UNCHANGED instvars
    /\ UNCHANGED passvars

Doubled(sz) == [width |-> sz.width * 2, height |-> sz.height * 2]

\* one turn of for (int i = 0; i < scale2; i++): Zoom2xAndPaddingImage,
\* ReconstructImage(net_scale, im), crop
Upscale(r) ==
    /\ pc = "upscale"
    /\ IsReconstructScale(mode)
    /\ iter < scale2
    /\ image_size' = Doubled(im_size)
    /\ trace' = Append(trace, Ev(IF r = "OK" THEN "pass" ELSE "pass_failed", "scale",
                                 PaddedSize(Doubled(im_size))))
    /\ ret' = (IF r = "OK" THEN ret ELSE r)
    /\ im_size' = (IF r = "OK" THEN Doubled(im_size) ELSE PaddedSize(Doubled(im_size)))
    /\ iter' = iter + 1
    /\ pc' = AfterReconstruct(r, "upscale")
    /\ UNCHANGED <<file, has_probe, cancel, cancel_at, scale2, shrinkRatio, output,
                   call_inited, init_ret, init_pre>>
    /\ UNCHANGED instvars
    /\ UNCHANGED passvars

\* the loop is not entered or is left
UpscaleLeave ==
    /\ pc = "upscale"
    /\ ~(IsReconstructScale(mode) /\ iter < scale2)
    /\ pc' = "poll2"
    /\ UNCHANGED <<file, has_probe, cancel, cancel_at, image_size, im_size, scale2,
                   shrinkRatio, iter, ret, trace, output, call_inited, init_ret, init_pre>>
    /\ UNCHANGED instvars
    /\ UNCHANGED passvars

\* the poll of line 828
Poll2 ==
    /\ pc = "poll2"
    /\ Polled("write")
    /\ UNCHANGED <<file, has_probe, cancel, cancel_at, image_size, im_size, scale2,
                   shrinkRatio, iter, output, call_inited, init_ret, init_pre>>
    /\ UNCHANGED instvars
    /\ UNCHANGED passvars

\* if (!cv::imwrite(output_file, write_iamge)) return eWaifu2xError_FailedOpenOutputFile;
WriteReturn_Polled(ok) ==
    IF has_probe /\ cancel THEN "Cancel"
    ELSE IF ok THEN "OK" ELSE "FailedOpenOutputFile"

WriteReturn(ok) == IF ok THEN "OK" ELSE "FailedOpenOutputFile"

\* lines 831-890: recomposition of colour and alpha, the final resize to ns
\* when ns differs from image_size, and the write. cv::resize to an empty size
\* throws, and nothing in waifu2x() catches it.
WriteOutput(ok) ==
    /\ pc = "write"
    /\ LET ns == Shrunk(image_size, shrinkRatio)
           recomposed == Append(trace, Ev("recompose", "none", image_size))
           resized == IF ns # image_size
                        THEN Append(recomposed, Ev("resize", "none", ns))
                        ELSE recomposed
       IN IF ns # image_size /\ (ns.width = 0 \/ ns.height = 0)
            THEN /\ trace' = Append(recomposed, Ev("resize_throws", "none", ns))
                 /\ ret' = "Exception"
                 /\ UNCHANGED output
            ELSE /\ trace' = Append(resized, Ev("write", "none", ns))
                 /\ ret' = WriteReturn(ok)
                 /\ output' = (IF ok THEN [written |-> TRUE, width |-> ns.width,
                                            height |-> ns.height]
                               ELSE output)
    /\ pc' = "done"
    /\ UNCHANGED <<file, has_probe, cancel, cancel_at, image_size, im_size, scale2,
                   shrinkRatio, iter, call_inited, init_ret, init_pre>>
    /\ UNCHANGED instvars
    /\ UNCHANGED passvars

\* waifu2x() has returned and its caller has taken the result
Return ==
    /\ pc = "done"
    /\ pc' = "idle"
    /\ file' = NoFile
    /\ has_probe' = FALSE
    /\ cancel' = FALSE
    /\ cancel_at' = NoCancel
    /\ image_size' = NoSize
    /\ im_size' = NoSize
    /\ scale2' = 0
    /\ shrinkRatio' = NoRatio
    /\ iter' = 0
    /\ ret' = "none"
    /\ trace' = <<>>
    /\ output' = NoOutput
    /\ call_inited' = FALSE
    /\ UNCHANGED <<init_ret, init_pre>>
    /\ UNCHANGED instvars
    /\ UNCHANGED passvars

\* the cancellation probe starts to return true while a call is running
CancelRequested ==
    /\ pc \notin {"idle", "done"}
    /\ has_probe
    /\ ~cancel
    /\ cancel' = TRUE
    /\ cancel_at' = [pc |-> pc, iter |-> iter]
    /\ UNCHANGED <<pc, file, has_probe, image_size, im_size, scale2, shrinkRatio, iter,
                   ret, trace, output, call_inited, init_ret, init_pre>>
    /\ UNCHANGED instvars
    /\ UNCHANGED passvars

PassResults == {"OK", "FailedProcessCaffe"}

\* init() returns before it reads its other arguments when the instance is
\* initialized or the ratio is not positive: one value of each stands for all
ReadArgs(ScaleRatio, S) ==
    IF is_inited \/ ScaleRatio <= 0 THEN {CHOOSE x \in S : TRUE} ELSE S

Next ==
    \/ \E ScaleRatio \in RatioArgs :
          \E Mode \in ReadArgs(ScaleRatio, Modes), CropSize \in ReadArgs(ScaleRatio, CropArgs),
             BatchSize \in ReadArgs(ScaleRatio, BatchArgs),
             outcome \in ReadArgs(ScaleRatio, InitOutcomes) :
                InitCall(Mode, ScaleRatio, CropSize, BatchSize, outcome)
    \/ Destroy
    \/ \E f \in Files, probe \in BOOLEAN : Waifu2xCall(f, probe)
    \/ \E r \in PassResults : Denoise(r)
    \/ DenoiseSkipped
    \/ Poll1
    \/ \E r \in PassResults : Upscale(r)
    \/ UpscaleLeave
    \/ Poll2
    \/ \E ok \in BOOLEAN : WriteOutput(ok)
    \/ Return
    \/ CancelRequested

Spec == Init /\ [][Next]_vars

-----------------------------------------------------------------------------
(* Properties of init, destroy and waifu2x() (Spec) *)

Count(ev, net) == Cardinality({i \in DOMAIN trace : trace[i].ev = ev /\ trace[i].net = net})
HasEv(ev) == \E i \in DOMAIN trace : trace[i].ev = ev

\* passes begun with the upscale engine, finished or failed
ScalePasses == Count("pass", "scale") + Count("pass_failed", "scale")
NoisePasses == Count("pass", "noise") + Count("pass_failed", "noise")

\* lines 809-810 have been executed in the call
Decomposed == shrinkRatio # NoRatio

\* k = ceil(log2(r / RatioUnit)), stated by its two inequalities:
\* 2^(k-1) < r / RatioUnit <= 2^k
IsCeilLog2(k, r) ==
    /\ r * Pow2(0 - k) <= RatioUnit * Pow2(k)
    /\ r * Pow2(0 - (k - 1)) > RatioUnit * Pow2(k - 1)

\* C5: scale2 = ceil(log2(scale_ratio)) and shrinkRatio = scale_ratio / 2^scale2;
\* 3.0 gives 2 and 0.75; 2.0 gives 1 and 1.0 and no final resize; 1.0 gives 0,
\* no upscale pass and no resize; and for ratios >= 1, 1/2 < shrinkRatio <= 1.
C5_ScaleDecomposition ==
    Decomposed =>
        /\ IsCeilLog2(scale2, scale_ratio)
        /\ shrinkRatio.n * Pow2(scale2) * RatioUnit = scale_ratio * Pow2(0 - scale2) * shrinkRatio.d
        /\ scale_ratio = 3 * RatioUnit => scale2 = 2 /\ 4 * shrinkRatio.n = 3 * shrinkRatio.d
        /\ scale_ratio = 2 * RatioUnit =>
              /\ scale2 = 1
              /\ shrinkRatio.n = shrinkRatio.d
              /\ ~HasEv("resize") /\ ~HasEv("resize_throws")
        /\ scale_ratio = RatioUnit =>
              /\ scale2 = 0
              /\ shrinkRatio.n = shrinkRatio.d
              /\ ScalePasses = 0
              /\ ~HasEv("resize") /\ ~HasEv("resize_throws")
              /\ output.written => output.width = file.width /\ output.height = file.height
        /\ scale_ratio >= RatioUnit =>
              /\ shrinkRatio.d < 2 * shrinkRatio.n
              /\ shrinkRatio.n <= shrinkRatio.d

C5_Witness ==
    /\ pc = "done"
    /\ ret = "OK"
    /\ mode = "scale"
    /\ scale_ratio = 3 * RatioUnit
    /\ scale2 = 2
    /\ 4 * shrinkRatio.n = 3 * shrinkRatio.d
    /\ ScalePasses = 2
    /\ HasEv("resize")

\* C6 (as claimed): a call that returns OK in a mode whose init loads the
\* upscale engine has run exactly ceil(log2(scale_ratio)) upscale passes, hands
\* a plane of original * 2^iterations to the final resize, and writes an image
\* of floor(w * scale_ratio) x floor(h * scale_ratio).
C6_ExactRequestedSize ==
    (pc = "done" /\ ret = "OK" /\ NeedsScale(mode)) =>
        /\ Count("pass", "scale") = CeilLog2(scale_ratio)
        /\ image_size.width * Pow2(0 - CeilLog2(scale_ratio)) = file.width * Pow2(CeilLog2(scale_ratio))
        /\ image_size.height * Pow2(0 - CeilLog2(scale_ratio)) = file.height * Pow2(CeilLog2(scale_ratio))
        /\ output.width = (file.width * scale_ratio) \div RatioUnit
        /\ output.height = (file.height * scale_ratio) \div RatioUnit

\* the probe turned true after the first upscale iteration and before a second
\* one that was due
CancelBeforeSecondIteration ==
    /\ cancel_at.pc = "upscale"
    /\ cancel_at.iter = 1
    /\ IsReconstructScale(mode)
    /\ scale2 >= 2

\* C7 (as claimed): when the probe turns true between the first and the second
\* upscale iteration, the second iteration is never run, the call returns
\* Cancel and nothing is written.
C7_CancelBetweenIterations ==
    CancelBeforeSecondIteration =>
        /\ ScalePasses <= 1
        /\ pc = "done" => (ret = "Cancel" /\ ~HasEv("write") /\ ~output.written)

\* the probe turned true only after the last pass of the call had finished:
\* the upscale loop had been left, and a pass had been run
CancelAfterLastPass ==
    /\ cancel_at.pc \in {"poll2", "write"}
    /\ NoisePasses + ScalePasses >= 1

CodeOf(ev) == IF ev = "load_failed" THEN "FailedOpenInputFile" ELSE "FailedProcessCaffe"

\* C9: the first failed step (image load, a denoise or upscale
\* ReconstructImage) is the last step of the call, which returns that step's
\* error code and writes nothing; so is a poll that returned true, with
\* Cancel; no pass is run twice; and a write is attempted only when the image
\* was loaded, every pass succeeded and no poll returned true.
C9_FirstFailureEndsRun ==
    /\ \A i \in DOMAIN trace :
          trace[i].ev \in {"load_failed", "pass_failed"} =>
              /\ i = Len(trace)
              /\ pc = "done"
              /\ ret = CodeOf(trace[i].ev)
              /\ ~output.written
    /\ \A i \in DOMAIN trace :
          trace[i].ev = "poll_true" => (i = Len(trace) /\ pc = "done" /\ ret = "Cancel")
    /\ ret = "Cancel" => (~HasEv("write") /\ ~output.written)
    /\ ret \in {"FailedOpenInputFile", "FailedProcessCaffe"} =>
          (HasEv("load_failed") \/ HasEv("pass_failed"))
    /\ NoisePasses <= 1
    /\ ScalePasses <= (IF scale2 > 0 THEN scale2 ELSE 0)
    /\ HasEv("write") =>
          /\ HasEv("load")
          /\ ~HasEv("load_failed") /\ ~HasEv("pass_failed") /\ ~HasEv("poll_true")
    /\ output.written => HasEv("write")

\* the denoise pass and the first upscale iteration succeed, the second
\* upscale iteration fails
C9_Witness ==
    /\ pc = "done"
    /\ ret = "FailedProcessCaffe"
    /\ Count("pass", "noise") = 1
    /\ Count("pass", "scale") = 1
    /\ Count("pass_failed", "scale") = 1
    /\ trace[Len(trace)].ev = "pass_failed"
    /\ ~output.written

\* C10: waifu2x() returns NotInitialized, having done nothing, exactly when
\* no init call has returned OK since construction or the last destroy; an
\* init rejected for a non-positive ratio leaves the instance not initialized;
\* an init on an initialized instance returns OK and changes nothing.
C10_NotInitialized ==
    /\ pc # "idle" => (ret = "NotInitialized" <=> ~call_inited)
    /\ ret = "NotInitialized" => (trace = <<>> /\ ~output.written /\ pc = "done")
    /\ is_inited <=> init_succeeded
    /\ (init_pre.called /\ init_pre.nonpositive /\ ~init_pre.inited) =>
          (init_ret = "InvalidParameter" /\ ~is_inited)
    /\ (init_pre.called /\ init_pre.inited) =>
          (init_ret = "OK" /\ is_inited /\ Config = init_pre.cfg)

\* NotInitialized on an instance that has been configured before
C10_Witness ==
    /\ pc = "done"
    /\ ret = "NotInitialized"
    /\ scale_ratio > 0
    /\ ~call_inited

\* the steps of the call that are reconstruction passes, finished or failed
PassSteps == {i \in DOMAIN trace : trace[i].ev \in {"pass", "pass_failed"}}
ScaleSteps == {i \in PassSteps : trace[i].net = "scale"}
NoiseSteps == {i \in PassSteps : trace[i].net = "noise"}
ResizeSteps == {i \in DOMAIN trace : trace[i].ev \in {"resize", "resize_throws"}}
RecomposeSteps == {i \in DOMAIN trace : trace[i].ev = "recompose"}

\* the mode asks for the denoise pass on the file of the call
DenoiseRequested ==
    \/ mode \in {"noise", "noise_scale"}
    \/ mode = "auto_scale" /\ file.isJpeg

\* the call has loaded its image and is past the denoise branch
PastDenoise == HasEv("load") /\ pc \notin {"idle", "denoise"}

\* Start -> (Denoise?) -> (UpscalePass)*: the denoise pass is run exactly in
\* the modes that ask for it, once, as the first step after the load, on the
\* padded plane of the file and with the denoise engine, which is loaded; every
\* other pass is the k-th upscale iteration, on the padded plane doubled k
\* times, with the upscale engine, which is loaded; the passes precede the
\* recomposition and the final resize, of which there is at most one each
PassesInOrder ==
    /\ PastDenoise => (NoiseSteps # {} <=> DenoiseRequested)
    /\ Cardinality(NoiseSteps) <= 1
    /\ \A i \in NoiseSteps :
          /\ i = 2
          /\ trace[1].ev = "load"
          /\ net_noise = "loaded"
          /\ [width |-> trace[i].width, height |-> trace[i].height] = PaddedSize(SizeOf(file))
    /\ \A i \in NoiseSteps, j \in ScaleSteps : i < j
    /\ PassSteps = NoiseSteps \cup ScaleSteps
    /\ \A j \in ScaleSteps :
          LET k == Cardinality({i \in ScaleSteps : i <= j})
          IN /\ net_scale = "loaded"
             /\ trace[j].width = PaddedSize([width |-> file.width * Pow2(k),
                                             height |-> file.height * Pow2(k)]).width
             /\ trace[j].height = PaddedSize([width |-> file.width * Pow2(k),
                                              height |-> file.height * Pow2(k)]).height
    /\ Cardinality(ScaleSteps) = iter
    /\ \A i \in PassSteps, j \in ResizeSteps \cup RecomposeSteps : i < j
    /\ Cardinality(ResizeSteps) <= 1
    /\ Cardinality(RecomposeSteps) <= 1
    /\ (HasEv("write") \/ ResizeSteps # {}) => RecomposeSteps # {}

\* C11 (as claimed): Start -> (Denoise?) -> (UpscalePass)* -> FinalResize ->
\* Recompose -> Done: the passes are in order, each with its own engine, and
\* the final resize to a size that is not image_size comes before the
\* recomposition of colour and alpha.
C11_PassSequence ==
    /\ PassesInOrder
    /\ \A i \in ResizeSteps, j \in RecomposeSteps : i < j

\* C11 (amended): Start -> (Denoise?) -> (UpscalePass)* -> Recompose ->
\* FinalResize -> Done: the passes are in order, each with its own engine, and
\* the final resize to a size that is not image_size comes after the
\* recomposition of colour and alpha and before the write.
C11_PassSequenceRecomposeFirst ==
    /\ PassesInOrder
    /\ \A i \in RecomposeSteps, j \in ResizeSteps : i < j
    /\ \A i \in ResizeSteps, j \in DOMAIN trace : trace[j].ev = "write" => i < j

\* denoise, one upscale iteration, recomposition, resize by 3/4, write
C11_Witness ==
    /\ pc = "done"
    /\ ret = "OK"
    /\ mode = "noise_scale"
    /\ Cardinality(NoiseSteps) = 1
    /\ Cardinality(ScaleSteps) = 1
    /\ HasEv("recompose")
    /\ HasEv("resize")
    /\ HasEv("write")

\* the denoise pass is skipped in auto_scale on a file that is not a JPEG
C11_WitnessAutoSkips ==
    /\ pc = "done"
    /\ ret = "OK"
    /\ mode = "auto_scale"
    /\ ~file.isJpeg
    /\ NoiseSteps = {}

\* n is the least positive multiple of output_size that holds a side of m
\* samples
PaddedSide(n, m) ==
    /\ n > 0
    /\ n % output_size = 0
    /\ m <= n
    /\ n < m + output_size

\* the plane before the padding of the pass of step j: the file's plane for
\* the denoise pass, doubled k times for the k-th upscale iteration
PrePadding(j) ==
    LET k == Cardinality({i \in ScaleSteps : i <= j})
    IN [width |-> file.width * Pow2(k), height |-> file.height * Pow2(k)]

\* C12: on every ReconstructImage call of waifu2x() the width and the height
\* of the canvas are positive multiples of output_size, the least that hold
\* the plane, so the asserts of lines 440-441 hold; and after each pass that
\* succeeds the plane is cropped back to its size before the padding: the
\* file's size after the denoise pass, the doubled size after an upscale
\* iteration.
C12_CanvasMultipleOfOutputSize ==
    /\ \A j \in PassSteps :
          /\ PaddedSide(trace[j].width, PrePadding(j).width)
          /\ PaddedSide(trace[j].height, PrePadding(j).height)
    /\ pc \in {"poll1", "upscale", "poll2", "write"} =>
          /\ im_size = image_size
          /\ im_size = [width |-> file.width * Pow2(iter), height |-> file.height * Pow2(iter)]
    /\ (pc = "done" /\ trace # <<>> /\ trace[Len(trace)].ev = "pass_failed") =>
          /\ im_size.width = trace[Len(trace)].width
          /\ im_size.height = trace[Len(trace)].height

\* a plane that is not square goes through the denoise pass and an upscale
\* iteration, padded on a side each time, and is written
C12_Witness ==
    /\ pc = "done"
    /\ ret = "OK"
    /\ file.width # file.height
    /\ Cardinality(NoiseSteps) = 1
    /\ Cardinality(ScaleSteps) >= 1
    /\ \A j \in PassSteps :
          trace[j].width > PrePadding(j).width \/ trace[j].height > PrePadding(j).height
    /\ output.written

-----------------------------------------------------------------------------
(* What a pass reads (SpecPass) *)

\* the place in the canvas nearest to v that is both within inner_padding of
\* the core that starts at origin and inside the canvas of side samples
NearestInContext(v, origin, side) ==
    Clamp(Clamp(v, origin - inner_padding, origin + crop_size + inner_padding - 1),
          0, side - 1)

\* the sample of the canvas that belongs at row i, column c of the input of
\* the tile with origin o: the one inner_padding + outer_padding above and
\* left of it, taken at the nearest place of the context of the tile
SampleBefore(canvas, o, i, c) ==
    At(canvas,
       NearestInContext(o.h + i - (inner_padding + outer_padding), o.h, canvas.rows),
       NearestInContext(o.w + c - (inner_padding + outer_padding), o.w, canvas.cols))

\* slot n of input_block holds the input of tile k, made of samples that
\* canvas holds
SlotReadFrom(canvas, n, k) ==
    LET o == TileOrigin(k, WidthNumOf(canvas))
    IN \A i \in 0..(input_block_size - 1) :
          \A c \in 0..(input_block_size - 1) :
              input_block[input_block_plane_size * n + i * input_block_size + c]
                  = SampleBefore(canvas, o, i, c)

C13_WitnessFailure ==
    /\ rpc = "failed"
    /\ engine = "biased"
    /\ Len(calls) >= 2
    /\ \E p \in DOMAIN written : written[p] > 0
    /\ im = pass_in
    /\ outim.data # pass_in.data

====
